---- MODULE Spec2Model ----
(***************************************************************************)
(* Model of multi_compress.py, an Ansible module that archives a source    *)
(* with tar/zip or unarchives it with tar/unzip.  One run of main() is     *)
(* modelled from the parsed parameters to the module's exit: the format    *)
(* detection, the shell command string that is built, the external         *)
(* process, the filesystem calls and the reported result.                  *)
(*                                                                         *)
(* Python strings are TLA+ strings; character i of s is SubSeq(s, i, i).   *)
(***************************************************************************)
EXTENDS Integers, Sequences, FiniteSets, TLC

VARIABLES params, fs, format, pc, cmd, proc, events, result

vars == <<params, fs, format, pc, cmd, proc, events, result>>

(***************************************************************************)
(* Bounds of the model.                                                    *)
(***************************************************************************)
\* most include and exclude patterns, taken together, in a request
MaxPatterns == 2

\* Python's None
None == "None"

\* choices of the 'format', 'compression' and 'state' parameters
FormatChoices == {"tar.gz", "tar.bz2", "zip"}
CompressionChoices == {"gzip", "pigz", "none"}
StateChoices == {"archived", "unarchived"}

\* values of the 'source' parameter that are enumerated
SourcePaths ==
    {"/data/site", "/data/a.tar.gz", "/data/a.tar.bz2", "/data/a.zip", "/data/a.xyz"}

\* paths that format detection alone is run on: every stem with every ending
DetectStems == {"a", "/data/site", "b.tar", "c.zip", "d.tbz2", ".", "x.tar.gz"}
DetectEndings ==
    {"", ".tar.gz", ".tgz", ".tar.bz2", ".tbz", ".tbz2", ".zip", ".xyz", ".tar",
     ".gz", ".bz2", "tgz", "zip", ".zip.bak", ".TGZ"}
DetectPaths == {stem \o ending : stem \in DetectStems, ending \in DetectEndings}

\* values of the 'dest' parameter that are enumerated
DestPaths == {"/backup/b.tar.gz", "/backup/b.zip"}

\* patterns of the 'include' and 'exclude' parameters that are enumerated
IncludePatterns == {"docs/", "my docs"}
ExcludePatterns == {"*.log", "it's"}

\* what a path can be on disk
PathKinds == {"file", "dir", "absent"}

\* exit statuses and raw combined outputs of the external process
ExitCodes == {0, 2}
RawOutputs == {"", " tar: Error\n"}

\* all sequences over S of length at most n
RECURSIVE SeqsUpTo(_, _)
SeqsUpTo(S, n) ==
    IF n = 0 THEN {<<>>}
    ELSE LET shorter == SeqsUpTo(S, n - 1)
         IN  shorter \cup {Append(q, x) : q \in shorter, x \in S}

(***************************************************************************)
(* String helpers: str.endswith, str.strip, " ".join, substring test.      *)
(***************************************************************************)
startswith(s, prefix) ==
    /\ Len(s) >= Len(prefix)
    /\ \/ Len(prefix) = 0
       \/ SubSeq(s, 1, Len(prefix)) = prefix

endswith(s, suffix) ==
    /\ Len(s) >= Len(suffix)
    /\ \/ Len(suffix) = 0
       \/ SubSeq(s, Len(s) - Len(suffix) + 1, Len(s)) = suffix

Whitespace == {" ", "\n", "\t", "\r"}

RECURSIVE lstrip(_)
lstrip(s) ==
    IF Len(s) = 0 THEN s
    ELSE IF SubSeq(s, 1, 1) \in Whitespace
         THEN (IF Len(s) = 1 THEN "" ELSE lstrip(SubSeq(s, 2, Len(s))))
         ELSE s

RECURSIVE rstrip(_)
rstrip(s) ==
    IF Len(s) = 0 THEN s
    ELSE IF SubSeq(s, Len(s), Len(s)) \in Whitespace
         THEN (IF Len(s) = 1 THEN "" ELSE rstrip(SubSeq(s, 1, Len(s) - 1)))
         ELSE s

strip(s) == rstrip(lstrip(s))

\* sep.join(items)
RECURSIVE join(_, _)
join(sep, items) ==
    IF Len(items) = 0 THEN ""
    ELSE IF Len(items) = 1 THEN items[1]
         ELSE items[1] \o sep \o join(sep, Tail(items))

\* sub in s
Contains(s, sub) ==
    \/ Len(sub) = 0
    \/ \E i \in 1..(Len(s) - Len(sub) + 1) : SubSeq(s, i, i + Len(sub) - 1) = sub

(***************************************************************************)
(* detect_archive_format(source)                                           *)
(***************************************************************************)
detect_archive_format(source) ==
    IF endswith(source, ".zip") THEN "zip"
    ELSE IF endswith(source, ".tar.gz") \/ endswith(source, ".tgz") THEN "tar.gz"
    ELSE IF endswith(source, ".tar.bz2") \/ endswith(source, ".tbz") THEN "tar.bz2"
    ELSE None

(***************************************************************************)
(* run_command(command): subprocess.check_output raises CalledProcessError *)
(* exactly when the exit status is not zero; either way the combined       *)
(* output is returned stripped.                                            *)
(***************************************************************************)
run_command_ignoring_status(exit, raw) == <<TRUE, strip(raw)>>

run_command(exit, raw) ==
    IF exit = 0 THEN <<TRUE, strip(raw)>> ELSE <<FALSE, strip(raw)>>

(***************************************************************************)
(* The command string archive() builds for tar.gz / tar.bz2 / zip.         *)
(***************************************************************************)
RECURSIVE exclude_flags(_)
exclude_flags(exclude) ==
    IF Len(exclude) = 0 THEN ""
    ELSE " --exclude='" \o exclude[1] \o "'" \o exclude_flags(Tail(exclude))

archive_cmd(fmt, compression, source, dest, include, exclude) ==
    IF fmt \in {"tar.gz", "tar.bz2"}
    THEN "tar"
         \o (IF fmt = "tar.gz"
             THEN (IF compression = "none" THEN " -z" ELSE " -I pigz")
             ELSE " -j")
         \o " -cf " \o dest
         \o exclude_flags(exclude)
         \o (IF Len(include) > 0 THEN " " \o join(" ", include)
             ELSE " " \o source)
    ELSE "zip -r " \o dest \o " " \o source

(***************************************************************************)
(* The command string unarchive() builds.                                  *)
(***************************************************************************)
unarchive_cmd(fmt, source, dest) ==
    IF fmt = "zip" THEN "unzip -o '" \o source \o "' -d '" \o dest \o "'"
    ELSE IF fmt = "tar.gz" THEN "tar -xzf '" \o source \o "' -C '" \o dest \o "'"
    ELSE "tar -xjf '" \o source \o "' -C '" \o dest \o "'"

(***************************************************************************)
(* ensure_directory_exists(path): the outcomes of the call when the path   *)
(* is of the given kind.  os.makedirs(exist_ok=True) is called only when   *)
(* the path is not a directory; it raises when the path is a file, and may *)
(* raise (permissions, read-only filesystem) when the path is absent.      *)
(* An outcome is <<kind afterwards, makedirs events, raised>>.             *)
(***************************************************************************)
ensure_directory_exists_skipped(path, kind) == {<<kind, <<>>, FALSE>>}

ensure_directory_exists(path, kind) ==
    IF kind = "dir" THEN {<<kind, <<>>, FALSE>>}
    ELSE IF kind = "file"
         THEN {<<kind, <<[op |-> "makedirs", arg |-> path, ok |-> FALSE]>>, TRUE>>}
         ELSE {<<"dir", <<[op |-> "makedirs", arg |-> path, ok |-> TRUE]>>, FALSE>>,
               <<kind, <<[op |-> "makedirs", arg |-> path, ok |-> FALSE]>>, TRUE>>}

(***************************************************************************)
(* Results handed to the framework.  fail_json and exit_json end the       *)
(* process; an exception nobody catches ends it without either.            *)
(***************************************************************************)
NoResult == [kind |-> "none", args |-> <<>>]
fail_json(msg) == [kind |-> "fail_json", args |-> [msg |-> msg]]
exit_json(changed, msg) == [kind |-> "exit_json", args |-> [changed |-> changed, msg |-> msg]]
uncaught(exc) == [kind |-> "exception", args |-> [exc |-> exc]]

(***************************************************************************)
(* The state after AnsibleModule(...) has parsed the parameters.           *)
(* archive() is the only reader of compression, include and exclude, and   *)
(* unarchive() the only reader of the kind of dest, so the parameters a    *)
(* direction never reads are enumerated at their defaults for it.          *)
(***************************************************************************)
Init ==
    /\ params \in [source : SourcePaths, dest : DestPaths,
                   format : FormatChoices \cup {None},
                   compression : CompressionChoices,
                   state : StateChoices,
                   delete_source : BOOLEAN,
                   include : SeqsUpTo(IncludePatterns, MaxPatterns),
                   exclude : SeqsUpTo(ExcludePatterns, MaxPatterns)]
    /\ Len(params.include) + Len(params.exclude) <= MaxPatterns
    /\ params.state = "unarchived" =>
          /\ params.compression = "none"
          /\ params.include = <<>>
          /\ params.exclude = <<>>
    /\ fs \in [source : PathKinds, dest : PathKinds]
    /\ params.state = "archived" => fs.dest = "absent"
    /\ format = params.format
    /\ pc = "main"
    /\ cmd = None
    /\ proc = <<FALSE, "">>
    /\ events = <<>>
    /\ result = NoResult

(***************************************************************************)
(* What /bin/sh makes of a command string (subprocess shell=True): words   *)
(* are split at unquoted spaces and single quotes are removed; a quote     *)
(* left open is a syntax error and no program is started.  Pathname        *)
(* expansion depends on the working directory and is not modelled.         *)
(***************************************************************************)
ShellSyntaxError == <<"sh: Syntax error: Unterminated quoted string">>

Min(S) == CHOOSE x \in S : \A y \in S : x <= y

\* s[a..b], which may be empty
Slice(s, a, b) == IF a > b THEN "" ELSE SubSeq(s, a, b)

\* s[a..b] without the quote characters, whose positions are quotes
RECURSIVE Unquote(_, _, _, _)
Unquote(s, a, b, quotes) ==
    LET inside == {q \in quotes : a <= q /\ q <= b}
    IN  IF inside = {} THEN Slice(s, a, b)
        ELSE Slice(s, a, Min(inside) - 1) \o Unquote(s, Min(inside) + 1, b, quotes)

\* the words of s[from..], separated at the positions seps
RECURSIVE SplitAt(_, _, _, _)
SplitAt(s, from, seps, quotes) ==
    IF from > Len(s) THEN <<>>
    ELSE LET to == Min({j \in seps : j >= from} \cup {Len(s) + 1})
         IN  (IF to > from THEN <<Unquote(s, from, to - 1, quotes)>> ELSE <<>>)
             \o SplitAt(s, to + 1, seps, quotes)

ShellWords(s) ==
    LET quotes == {i \in 1..Len(s) : SubSeq(s, i, i) = "'"}
        seps == {i \in 1..Len(s) :
                    /\ SubSeq(s, i, i) = " "
                    /\ Cardinality({q \in quotes : q < i}) % 2 = 0}
    IN  IF Cardinality(quotes) % 2 = 1 THEN ShellSyntaxError
        ELSE SplitAt(s, 1, seps, quotes)

(***************************************************************************)
(* main(): fill in an unset format from the source, then dispatch.         *)
(***************************************************************************)
Main ==
    /\ pc = "main"
    /\ format' = IF params.format = None
                 THEN detect_archive_format(params.source)
                 ELSE params.format
    /\ pc' = IF params.state = "archived" THEN "archive" ELSE "unarchive"
    /\ UNCHANGED <<params, fs, cmd, proc, events, result>>

(***************************************************************************)
(* archive(): build the command, or fail on an unsupported format.         *)
(***************************************************************************)
ArchiveBuild ==
    /\ pc = "archive"
    /\ IF format \in FormatChoices
       THEN /\ cmd' = archive_cmd(format, params.compression, params.source,
                                  params.dest, params.include, params.exclude)
            /\ pc' = "archive_run"
            /\ UNCHANGED result
       ELSE /\ result' = fail_json("Unsupported format: " \o format)
            /\ pc' = "done"
            /\ UNCHANGED cmd
    /\ UNCHANGED <<params, fs, format, proc, events>>

(***************************************************************************)
(* archive(): run the command; a failure is reported and ends the run.     *)
(***************************************************************************)
ArchiveRun ==
    /\ pc = "archive_run"
    /\ LET argv == ShellWords(cmd)
       IN  \E exit \in ExitCodes, raw \in RawOutputs :
              /\ argv = ShellSyntaxError => exit # 0
              /\ proc' = run_command(exit, raw)
              /\ events' = Append(events, [op |-> "exec", arg |-> cmd, ok |-> (exit = 0),
                                               out |-> raw])
    /\ IF proc'[1]
       THEN /\ pc' = "archive_finish"
            /\ UNCHANGED result
       ELSE /\ result' = fail_json("Failed to archive " \o params.source \o ": " \o proc'[2])
            /\ pc' = "done"
    /\ UNCHANGED <<params, fs, format, cmd>>

(***************************************************************************)
(* archive(): delete the source if asked to, then report success.          *)
(* shutil.rmtree and os.remove may raise; os.remove raises on anything     *)
(* that is not an existing file.  Nothing catches the exception.           *)
(***************************************************************************)
ArchiveFinish ==
    /\ pc = "archive_finish"
    /\ pc' = "done"
    /\ IF params.delete_source
       THEN \E ok \in BOOLEAN :
               /\ (fs.source = "absent") => ~ok
               /\ events' = Append(events,
                      [op |-> IF fs.source = "dir" THEN "rmtree" ELSE "remove",
                       arg |-> params.source, ok |-> ok])
               /\ fs' = IF ok THEN [fs EXCEPT !.source = "absent"] ELSE fs
               /\ result' = IF ok
                            THEN exit_json(TRUE, params.source \o " archived to "
                                                 \o params.dest \o " successfully.")
                            ELSE uncaught("OSError")
       ELSE /\ result' = exit_json(TRUE, params.source \o " archived to "
                                         \o params.dest \o " successfully.")
            /\ UNCHANGED <<fs, events>>
    /\ UNCHANGED <<params, format, cmd, proc>>

(***************************************************************************)
(* unarchive(): make sure the destination directory exists.                *)
(***************************************************************************)
UnarchiveEnsure ==
    /\ pc = "unarchive"
    /\ \E out \in ensure_directory_exists(params.dest, fs.dest) :
          /\ fs' = [fs EXCEPT !.dest = out[1]]
          /\ events' = events \o out[2]
          /\ IF out[3]
             THEN /\ result' = uncaught("OSError")
                  /\ pc' = "done"
             ELSE /\ pc' = "unarchive_build"
                  /\ UNCHANGED result
    /\ UNCHANGED <<params, format, cmd, proc>>

(***************************************************************************)
(* unarchive(): detect an unset format from the source and build the       *)
(* command, or fail on an unsupported format.                              *)
(***************************************************************************)
UnarchiveBuild ==
    /\ pc = "unarchive_build"
    /\ format' = IF format = None THEN detect_archive_format(params.source) ELSE format
    /\ IF format' \in FormatChoices
       THEN /\ cmd' = unarchive_cmd(format', params.source, params.dest)
            /\ pc' = "unarchive_run"
            /\ UNCHANGED result
       ELSE /\ result' = fail_json("Unsupported archive format: " \o format')
            /\ pc' = "done"
            /\ UNCHANGED cmd
    /\ UNCHANGED <<params, fs, proc, events>>

(***************************************************************************)
(* unarchive(): run the command; a failure is reported and ends the run.   *)
(***************************************************************************)
UnarchiveRun ==
    /\ pc = "unarchive_run"
    /\ LET argv == ShellWords(cmd)
       IN  \E exit \in ExitCodes, raw \in RawOutputs :
              /\ argv = ShellSyntaxError => exit # 0
              /\ proc' = run_command(exit, raw)
              /\ events' = Append(events, [op |-> "exec", arg |-> cmd, ok |-> (exit = 0),
                                               out |-> raw])
    /\ IF proc'[1]
       THEN /\ pc' = "unarchive_finish"
            /\ UNCHANGED result
       ELSE /\ result' = fail_json("Failed to unarchive " \o params.source \o ": " \o proc'[2])
            /\ pc' = "done"
    /\ UNCHANGED <<params, fs, format, cmd>>

(***************************************************************************)
(* unarchive(): delete the source with os.remove if asked to, then report  *)
(* success.                                                                *)
(***************************************************************************)
UnarchiveFinish ==
    /\ pc = "unarchive_finish"
    /\ pc' = "done"
    /\ IF params.delete_source
       THEN \E ok \in BOOLEAN :
               /\ (fs.source # "file") => ~ok
               /\ events' = Append(events,
                      [op |-> "remove", arg |-> params.source, ok |-> ok])
               /\ fs' = IF ok THEN [fs EXCEPT !.source = "absent"] ELSE fs
               /\ result' = IF ok
                            THEN exit_json(TRUE, params.source \o " successfully unarchived to "
                                                 \o params.dest \o ".")
                            ELSE uncaught("OSError")
       ELSE /\ result' = exit_json(TRUE, params.source \o " successfully unarchived to "
                                         \o params.dest \o ".")
            /\ UNCHANGED <<fs, events>>
    /\ UNCHANGED <<params, format, cmd, proc>>

Next ==
    \/ Main
    \/ ArchiveBuild
    \/ ArchiveRun
    \/ ArchiveFinish
    \/ UnarchiveEnsure
    \/ UnarchiveBuild
    \/ UnarchiveRun
    \/ UnarchiveFinish

Spec == Init /\ [][Next]_vars

(***************************************************************************)
(* Format detection on its own: detect_archive_format applied to a path.   *)
(***************************************************************************)
InitDetect ==
    /\ params \in [source : DetectPaths, dest : {"/backup/b.tar.gz"},
                   format : {None}, compression : {"none"},
                   state : StateChoices, delete_source : {FALSE},
                   include : {<<>>}, exclude : {<<>>}]
    /\ fs = [source |-> "file", dest |-> "dir"]
    /\ format = params.format
    /\ pc = "detect"
    /\ cmd = None
    /\ proc = <<FALSE, "">>
    /\ events = <<>>
    /\ result = NoResult

Detect ==
    /\ pc = "detect"
    /\ format' = detect_archive_format(params.source)
    /\ pc' = "detected"
    /\ UNCHANGED <<params, fs, cmd, proc, events, result>>

NextDetect == Detect

SpecDetect == InitDetect /\ [][NextDetect]_vars

(***************************************************************************)
(* How tar reads the argument vector it is started with: the word after    *)
(* -I or -cf belongs to that option, --exclude=PATTERN is one exclude      *)
(* option, other words starting with - are options and the rest are the    *)
(* operands (the members to put into the archive).                         *)
(***************************************************************************)
IsOptionArg(words, i) == i > 1 /\ words[i - 1] \in {"-I", "-cf"}

RECURSIVE TarExcludesFrom(_, _)
TarExcludesFrom(words, i) ==
    IF i > Len(words) THEN <<>>
    ELSE (IF ~IsOptionArg(words, i) /\ startswith(words[i], "--exclude=")
          THEN <<Slice(words[i], Len("--exclude=") + 1, Len(words[i]))>>
          ELSE <<>>)
         \o TarExcludesFrom(words, i + 1)

TarExcludes(words) == TarExcludesFrom(words, 2)

RECURSIVE TarOperandsFrom(_, _)
TarOperandsFrom(words, i) ==
    IF i > Len(words) THEN <<>>
    ELSE (IF ~IsOptionArg(words, i) /\ ~startswith(words[i], "-")
          THEN <<words[i]>>
          ELSE <<>>)
         \o TarOperandsFrom(words, i + 1)

TarOperands(words) == TarOperandsFrom(words, 2)

\* the events of the run that are calls of the given operations
EventsOf(ops) == {i \in DOMAIN events : events[i].op \in ops}

(***************************************************************************)
(* C1: with no explicit format, a path ending in .tar.gz or .tgz resolves  *)
(* to tar.gz, one ending in .tar.bz2, .tbz or .tbz2 to tar.bz2, one ending *)
(* in .zip to zip, and every other path to no format.                      *)
(***************************************************************************)
SuffixTable(path) ==
    IF endswith(path, ".tar.gz") \/ endswith(path, ".tgz") THEN "tar.gz"
    ELSE IF endswith(path, ".tar.bz2") \/ endswith(path, ".tbz")
            \/ endswith(path, ".tbz2") THEN "tar.bz2"
    ELSE IF endswith(path, ".zip") THEN "zip"
    ELSE None

C1_SuffixResolution ==
    pc = "detected" => format = SuffixTable(params.source)

(***************************************************************************)
(* C2: when the format parameter is unset, the format is inferred from the *)
(* destination path for state=archived and from the source path for        *)
(* state=unarchived.                                                       *)
(***************************************************************************)
C2_ReferencePath ==
    (params.format = None /\ pc # "main") =>
        format = detect_archive_format(IF params.state = "archived"
                                       THEN params.dest ELSE params.source)

(***************************************************************************)
(* C3: an Unpack with no explicit format and an unrecognised source suffix *)
(* ends in failure, without any external process and without any change   *)
(* to the filesystem (no directory created, no source deleted).            *)
(***************************************************************************)
C3_UnresolvedUnpackTouchesNothing ==
    (/\ params.state = "unarchived"
     /\ params.format = None
     /\ detect_archive_format(params.source) = None) =>
        /\ EventsOf({"exec"}) = {}
        /\ \A i \in EventsOf({"makedirs", "rmtree", "remove"}) : ~events[i].ok
        /\ pc = "done" => result.kind \in {"fail_json", "exception"}

(***************************************************************************)
(* C4: when the external tool exits non-zero, the run is reported as       *)
(* failed with a message that contains the captured output (as run_command *)
(* returns it), and no removal of the source is ever issued in that run,   *)
(* whatever delete_source is.                                              *)
(***************************************************************************)
C4_ToolFailureReported ==
    \A i \in EventsOf({"exec"}) :
        ~events[i].ok =>
            /\ EventsOf({"rmtree", "remove"}) = {}
            /\ pc = "done"
            /\ result.kind = "fail_json"
            /\ Contains(result.args.msg, strip(events[i].out))

C4_Witness ==
    /\ pc = "done"
    /\ params.delete_source
    /\ \E i \in EventsOf({"exec"}) : ~events[i].ok /\ strip(events[i].out) # ""
    /\ result.kind = "fail_json"

(***************************************************************************)
(* C5: for a Pack with format tar.gz or tar.bz2 the built command carries  *)
(* one exclude flag per exclude pattern, each holding that pattern         *)
(* unmodified and in the given order, and its operands are exactly the     *)
(* include patterns when include is non-empty and exactly the source path  *)
(* when it is empty.                                                       *)
(***************************************************************************)
C5_ExcludesAndOperands ==
    (pc = "archive_run" /\ format \in {"tar.gz", "tar.bz2"}) =>
        LET argv == ShellWords(cmd)
        IN  /\ argv # ShellSyntaxError
            /\ TarExcludes(argv) = params.exclude
            /\ TarOperands(argv) = IF Len(params.include) > 0
                                   THEN params.include
                                   ELSE <<params.source>>

(***************************************************************************)
(* C6: after a successful tool run with delete_source = true the source is *)
(* removed recursively when it is a directory and by a single-file removal *)
(* otherwise; with delete_source = false no removal is issued.             *)
(***************************************************************************)
C6_DeleteSource ==
    [][(pc \in {"archive_finish", "unarchive_finish"} /\ pc' = "done") =>
          IF params.delete_source
          THEN /\ Len(events') = Len(events) + 1
               /\ events'[Len(events')].arg = params.source
               /\ events'[Len(events')].op =
                      IF fs.source = "dir" THEN "rmtree" ELSE "remove"
          ELSE events' = events /\ fs' = fs]_vars

(***************************************************************************)
(* C7: when the tool succeeded and the deletion of the source then fails,  *)
(* the run still reports the archive/unarchive as successful, with a       *)
(* distinct indication of the cleanup error.                               *)
(***************************************************************************)
C7_CleanupFailureStillSuccess ==
    (/\ pc = "done"
     /\ \E i \in EventsOf({"rmtree", "remove"}) : ~events[i].ok) =>
        /\ result.kind = "exit_json"
        /\ result.args.changed
        /\ DOMAIN result.args \ {"changed", "msg"} # {}

(***************************************************************************)
(* C8: for a Pack with format tar.gz, compression = gzip builds the same   *)
(* -z command as compression = none; -I pigz is used only for              *)
(* compression = pigz.                                                     *)
(***************************************************************************)
C8_GzipIsDefaultPath ==
    (pc = "archive_run" /\ format = "tar.gz") =>
        /\ cmd = archive_cmd(format, (IF params.compression = "gzip" THEN "none"
                                      ELSE params.compression),
                             params.source, params.dest, params.include, params.exclude)
        /\ startswith(cmd, "tar -I pigz ") <=> (params.compression = "pigz")
        /\ startswith(cmd, "tar -z ") <=> (params.compression \in {"none", "gzip"})

(***************************************************************************)
(* C9: every successful Pack or Unpack returns original_source and         *)
(* destination in addition to changed and msg.                             *)
(***************************************************************************)
C9_ResultNamesSourceAndDest ==
    result.kind = "exit_json" =>
        /\ {"changed", "msg", "original_source", "destination"} \subseteq DOMAIN result.args
        /\ result.args.original_source = params.source
        /\ result.args.destination = params.dest

(***************************************************************************)
(* C10: in every Unpack run that executes the command, the destination     *)
(* directory exists when the command is run; a missing directory is        *)
(* created before the command, and the command is never run after a        *)
(* creation that failed.                                                   *)
(***************************************************************************)
C10_DestExistsBeforeRun ==
    params.state = "unarchived" =>
        \A i \in EventsOf({"exec"}) :
            /\ fs.dest = "dir"
            /\ \A j \in EventsOf({"makedirs"}) : j < i /\ events[j].ok

C10_Witness ==
    /\ params.state = "unarchived"
    /\ Len(events) >= 2
    /\ events[1].op = "makedirs" /\ events[1].ok
    /\ events[2].op = "exec"
    /\ fs.dest = "dir"

====
